---- MODULE Spec2Model ----
(***************************************************************************)
(* The authenticated request pipeline of the open-API HTTP client:         *)
(* RequestBuilder (builder operations, do_send, send) of                   *)
(* rust/crates/httpclient/src/request.rs.                                  *)
(***************************************************************************)
EXTENDS Integers, Sequences, FiniteSets, TLC

(***************************************************************************)
(* Program constants (request.rs:21-28).                                   *)
(***************************************************************************)
HTTP_URL == "https://openapi.longportapp.com"
HTTP_URL_CN == "https://openapi.longportapp.cn"
USER_AGENT == "openapi-sdk"
\* Duration::from_secs(30)
REQUEST_TIMEOUT == [secs |-> 30, nanos |-> 0]
\* a loop that runs once more
RETRY_COUNT_OneMore == 5 + 1
RETRY_COUNT == 5
NANOS_PER_SEC == 1000000000
NANOS_PER_MILLI == 1000000
\* Duration::from_millis(100)
RETRY_INITIAL_DELAY == [secs |-> 0, nanos |-> 100 * NANOS_PER_MILLI]

(***************************************************************************)
(* f32 arithmetic.  An f32 is [m, e] with value m * 2^e, where m = 0 or    *)
(* 2^23 <= m < 2^24 (the 24-bit significand).  Every operation rounds its  *)
(* exact result to nearest, ties to even, as IEEE 754 does.                *)
(***************************************************************************)
Pow2(n) == 2 ^ n

RECURSIVE BitLen(_)
BitLen(n) == IF n = 0 THEN 0 ELSE 1 + BitLen(n \div 2)

F32Zero == [m |-> 0, e |-> 0]

\* q with the discarded bits (guard: the first one, sticky: any later one)
\* rounded to nearest, ties to even
RoundHalfEven(q, guard, sticky) ==
    IF guard = 1 /\ (sticky = 1 \/ q % 2 = 1) THEN q + 1 ELSE q

\* the f32 nearest to n * 2^e, for an integer 0 < n < 2^31
F32Norm(n, e) ==
    LET bl == BitLen(n) IN
    IF bl <= 24
    THEN [m |-> n * Pow2(24 - bl), e |-> e - (24 - bl)]
    ELSE LET s     == bl - 24
             q     == n \div Pow2(s)
             r     == n % Pow2(s)
             guard == r \div Pow2(s - 1)
             stick == IF r % Pow2(s - 1) # 0 THEN 1 ELSE 0
             q2    == RoundHalfEven(q, guard, stick)
         IN  IF q2 = Pow2(24)
             THEN [m |-> Pow2(23), e |-> e + s + 1]
             ELSE [m |-> q2, e |-> e + s]

\* `n as f32`
U32ToF32(n) == IF n = 0 THEN F32Zero ELSE F32Norm(n, 0)

\* n further quotient bits of r / d by long division: <<quotient, remainder>>
RECURSIVE DivBits(_, _, _, _)
DivBits(r, d, n, q) ==
    IF n = 0 THEN <<q, r>>
    ELSE IF 2 * r >= d THEN DivBits(2 * r - d, d, n - 1, 2 * q + 1)
                       ELSE DivBits(2 * r, d, n - 1, 2 * q)

\* a / b in f32 (b # 0)
F32Div(a, b) ==
    IF a.m = 0 THEN F32Zero
    ELSE LET qr == DivBits(a.m % b.m, b.m, 26, a.m \div b.m)
             n  == 2 * qr[1] + (IF qr[2] # 0 THEN 1 ELSE 0)
         IN  F32Norm(n, a.e - b.e - 27)

\* floor(x * y / 2^k) for x < 2^k and y < 2^30, with the guard and sticky
\* bits of the discarded part, one bit of x at a time
RECURSIVE MulShr(_, _, _, _, _, _, _)
MulShr(x, y, k, i, acc, guard, sticky) ==
    IF i = k THEN [q |-> acc, guard |-> guard, sticky |-> sticky]
    ELSE LET bit == IF i >= 30 THEN 0 ELSE (x \div Pow2(i)) % 2
             t   == acc + bit * y
         IN  MulShr(x, y, k, i + 1, t \div 2, t % 2,
                    IF sticky = 1 \/ guard = 1 THEN 1 ELSE 0)

\* a * b in f32
F32Mul(a, b) ==
    IF a.m = 0 \/ b.m = 0 THEN F32Zero
    ELSE LET lo == MulShr(a.m % Pow2(23), b.m, 23, 0, 0, 0, 0)
             q  == (a.m \div Pow2(23)) * b.m + lo.q
             n  == 4 * q + 2 * lo.guard + lo.sticky
         IN  F32Norm(n, a.e + b.e + 21)

\* a + b in f32, a and b not negative
F32Add(a, b) ==
    IF a.m = 0 THEN b
    ELSE IF b.m = 0 THEN a
    ELSE LET hi == IF a.e >= b.e THEN a ELSE b
             lo == IF a.e >= b.e THEN b ELSE a
             d  == hi.e - lo.e
         IN  IF d > 26 THEN hi
             ELSE LET sb    == (8 * lo.m) \div Pow2(d)
                      stick == IF (8 * lo.m) % Pow2(d) # 0 THEN 1 ELSE 0
                  IN  F32Norm(2 * (8 * hi.m + sb) + stick, hi.e - 4)

\* the literal 2.0
RETRY_FACTOR == [m |-> Pow2(23), e |-> -22]

(***************************************************************************)
(* std::time::Duration, [secs, nanos] with nanos < NANOS_PER_SEC.          *)
(***************************************************************************)
\* Duration::as_secs_f32: (secs as f32) + (nanos as f32) / (NANOS_PER_SEC as f32)
as_secs_f32(d) ==
    F32Add(U32ToF32(d.secs), F32Div(U32ToF32(d.nanos), U32ToF32(NANOS_PER_SEC)))

\* Duration::from_secs_f32: the whole seconds, and the fraction in
\* nanoseconds rounded to nearest, ties to even
from_secs_f32(f) ==
    IF f.m = 0 \/ f.e < -54 THEN [secs |-> 0, nanos |-> 0]
    ELSE IF f.e >= 0 THEN [secs |-> f.m * Pow2(f.e), nanos |-> 0]
    ELSE LET k    == -f.e
             secs == IF k >= 24 THEN 0 ELSE f.m \div Pow2(k)
             frac == IF k >= 24 THEN f.m ELSE f.m % Pow2(k)
             r    == MulShr(frac, NANOS_PER_SEC, k, 0, 0, 0, 0)
         IN  [secs |-> secs, nanos |-> RoundHalfEven(r.q, r.guard, r.sticky)]

\* Duration::from_millis
from_millis(ms) == [secs |-> ms \div 1000, nanos |-> (ms % 1000) * NANOS_PER_MILLI]

\* Duration::from_secs
from_secs(secs) == [secs |-> secs, nanos |-> 0]

\* Duration < Duration
DurationLess(a, b) == a.secs < b.secs \/ (a.secs = b.secs /\ a.nanos < b.nanos)

\* Duration::as_millis
as_millis(d) == d.secs * 1000 + d.nanos \div NANOS_PER_MILLI

\* Duration + Duration
DurationAdd(a, b) ==
    LET n == a.nanos + b.nanos IN
    [secs |-> a.secs + b.secs + n \div NANOS_PER_SEC, nanos |-> n % NANOS_PER_SEC]

\* the sum of a sequence of Durations
RECURSIVE SumDurations(_)
SumDurations(seq) ==
    IF seq = << >> THEN [secs |-> 0, nanos |-> 0]
    ELSE DurationAdd(Head(seq), SumDurations(Tail(seq)))

\* the delay doubled in whole nanoseconds, with no f32 in between
NextDelayExact(retry_delay) == DurationAdd(retry_delay, retry_delay)
\* Duration::from_secs_f32(retry_delay.as_secs_f32() * RETRY_FACTOR)
NextDelay(retry_delay) == from_secs_f32(F32Mul(as_secs_f32(retry_delay), RETRY_FACTOR))

(***************************************************************************)
(* Values.  An Option is a sequence: << >> is None and <<v>> is Some(v);   *)
(* a Result that failed without a value of interest is << >> as well.      *)
(***************************************************************************)
None == << >>
Some(v) == <<v>>

\* http::HeaderMap: each header name maps to the sequence of its values
HeaderNames ==
    {"User-Agent", "X-Api-Key", "Authorization", "X-Timestamp", "Content-Type",
     "X-Api-Signature"}
EmptyHeaders == [n \in HeaderNames |-> << >>]

\* strings that are no legal header name (HeaderName::try_from fails)
InvalidHeaderNames == {"bad name"}
\* strings that are no legal header value (HeaderValue::try_from fails)
InvalidHeaderValues == {"bad\nvalue", "app\nkey", "to\nken"}
\* header values that are not visible ASCII (HeaderValue::to_str fails)
OpaqueHeaderValues == {"trace-<ff>"}

\* HeaderMap::get: the first value of the name
HeaderGet(map, name) ==
    IF name \in DOMAIN map /\ map[name] # << >> THEN Some(Head(map[name])) ELSE None
\* HeaderMap::insert: the value replaces every value of the name
HeaderInsert(map, name, value) == [map EXCEPT ![name] = <<value>>]
\* HeaderMap::append: the value is added after the values of the name
HeaderAppend(map, name, value) == [map EXCEPT ![name] = Append(@, value)]
\* HeaderValue::to_str
HeaderToStr(value) == IF value \in OpaqueHeaderValues THEN None ELSE Some(value)

\* the timestamps of the model and their texts
Timestamps == 15 .. 30
TimestampText == [t \in Timestamps |-> ToString(t)]
\* str::parse::<Timestamp>
ParseTimestamp(s) ==
    IF \E t \in Timestamps : TimestampText[t] = s
    THEN Some(CHOOSE t \in Timestamps : TimestampText[t] = s)
    ELSE None
\* Timestamp::to_string
TimestampToString(t) == TimestampText[t]

(***************************************************************************)
(* Payload codecs (request.rs:52-110).  A body is [codec, text,            *)
(* serializable]; a response type is one of the FromPayload types.         *)
(***************************************************************************)
BodyInputs ==
    { [codec |-> "Json", text |-> "{\"symbol\":\"700.HK\"}", serializable |-> TRUE],
      [codec |-> "Json", text |-> "", serializable |-> FALSE],
      [codec |-> "String", text |-> "hello", serializable |-> TRUE],
      [codec |-> "Unit", text |-> "", serializable |-> TRUE] }

\* ToPayload::to_bytes for Json<T>: serde_json::to_vec
JsonToBytes(body) == IF body.serializable THEN Some(body.text) ELSE None
\* ToPayload::to_bytes for String
StringToBytes(body) == Some(body.text)
\* ToPayload::to_bytes for ()
UnitToBytes(body) == Some("")
to_bytes(body) ==
    CASE body.codec = "Json" -> JsonToBytes(body)
      [] body.codec = "String" -> StringToBytes(body)
      [] body.codec = "Unit" -> UnitToBytes(body)

ResponseTypes == {"Unit", "String", "Json"}
\* the raw JSON values a Json<T> response type decodes (T is a struct)
JsonObjects == {"{}"}
\* FromPayload::parse_from_bytes for Json<T>: serde_json::from_slice
JsonParse(data) == IF data \in JsonObjects THEN Some([ty |-> "Json", v |-> data]) ELSE None
\* FromPayload::parse_from_bytes for String: String::from_utf8
StringParse(data) == Some([ty |-> "String", v |-> data])
\* FromPayload::parse_from_bytes for (): the bytes are ignored
UnitParse(data) == Some([ty |-> "Unit", v |-> ""])
parse_from_bytes(R, data) ==
    CASE R = "Json" -> JsonParse(data)
      [] R = "String" -> StringParse(data)
      [] R = "Unit" -> UnitParse(data)

\* the query values and crate::qs::to_string of them
QueryInputs == {[text |-> "symbol=700.HK", serializable |-> TRUE],
                [text |-> "", serializable |-> FALSE]}
qs_to_string(q) == IF q.serializable THEN Some(q.text) ELSE None

(***************************************************************************)
(* The response envelope (request.rs:112-117).  A response text is         *)
(* [object, code, message, data]: whether it is a JSON object, and the     *)
(* tokens of its three fields, each an Option (absent: None).              *)
(***************************************************************************)
NotJson == [object |-> FALSE, code |-> None, message |-> None, data |-> None]
Envelope(code, message, data) ==
    [object |-> TRUE, code |-> code, message |-> message, data |-> data]
ResponseTexts ==
    { NotJson,
      \* {"code":0,"data":"{}"}
      Envelope(Some("0"), None, Some("\"{}\"")),
      \* {"code":0,"message":"ok","data":null}
      Envelope(Some("0"), Some("ok"), Some("null")),
      \* {"code":0,"message":"ok"}
      Envelope(Some("0"), Some("ok"), None),
      \* {"code":0,"message":"ok","data":"{}"}
      Envelope(Some("0"), Some("ok"), Some("\"{}\"")),
      \* {"code":0,"message":"ok","data":{}}
      Envelope(Some("0"), Some("ok"), Some("{}")),
      \* {"code":7,"message":"denied","data":null}
      Envelope(Some("7"), Some("denied"), Some("null")),
      \* {"code":4294967296,"message":"ok","data":{}}
      Envelope(Some("4294967296"), Some("ok"), Some("{}")) }

\* the i32 values a code token denotes in the model, and their texts
Codes == -1 .. 7
CodeText == [n \in Codes |-> ToString(n)]
\* i32 from a JSON number token; a number out of range is an error
ParseI32(tok) ==
    IF \E n \in Codes : CodeText[n] = tok
    THEN Some(CHOOSE n \in Codes : CodeText[n] = tok)
    ELSE None

\* message defaults to the empty string when it is absent
ParseEnvelopeDefaultMessage(text) ==
    IF ~text.object \/ text.code = None THEN None
    ELSE IF ParseI32(text.code[1]) = None THEN None
    ELSE Some([code    |-> ParseI32(text.code[1])[1],
               message |-> IF text.message = None THEN "" ELSE text.message[1],
               data    |-> IF text.data = None \/ text.data = Some("null")
                           THEN None ELSE text.data])
\* a null data is kept as the raw value null
ParseEnvelopeKeepNull(text) ==
    IF ~text.object \/ text.code = None \/ text.message = None THEN None
    ELSE IF ParseI32(text.code[1]) = None THEN None
    ELSE Some([code    |-> ParseI32(text.code[1])[1],
               message |-> text.message[1],
               data    |-> text.data])
\* serde_json::from_str::<OpenApiResponse>: code and message are required,
\* data is an Option (absent or null: None)
ParseEnvelope(text) ==
    IF ~text.object \/ text.code = None \/ text.message = None THEN None
    ELSE IF ParseI32(text.code[1]) = None THEN None
    ELSE Some([code    |-> ParseI32(text.code[1])[1],
               message |-> text.message[1],
               data    |-> IF text.data = None \/ text.data = Some("null")
                           THEN None ELSE text.data])

(***************************************************************************)
(* HttpClientError and HttpClientResult.                                   *)
(***************************************************************************)
Ok(v) == [kind |-> "Ok", value |-> v]
Err(kind) == [kind |-> kind]
BadStatus(status) == [kind |-> "BadStatus", status |-> status]
OpenApi(code, message, trace_id) ==
    [kind |-> "OpenApi", code |-> code, message |-> message, trace_id |-> trace_id]
TOO_MANY_REQUESTS == 429
StatusOK == 200

\* what the transport can answer to one request, and how long execute and
\* the reading of the body take together
Statuses == {StatusOK, TOO_MANY_REQUESTS, 500}
TraceHeaders == {None, Some("trace-1"), Some("trace-<ff>")}
InTime == from_secs(29)
TooLate == from_secs(31)
Exchanges ==
    [kind : {"execute_error", "text_error"}, took : {InTime}]
    \cup [kind : {"response"}, status : Statuses, trace : TraceHeaders,
          text : ResponseTexts, took : {InTime}]
    \cup [kind : {"execute_error"}, took : {TooLate}]
    \cup [kind : {"response"}, status : Statuses, trace : {None},
          text : {NotJson, Envelope(Some("0"), Some("ok"), Some("\"{}\""))},
          took : {TooLate}]

(***************************************************************************)
(* State.                                                                  *)
(***************************************************************************)
VARIABLES
    config,          \* client.config: http_url, app_key, access_token, app_secret
    default_headers, \* client.default_headers
    method,          \* RequestBuilder.method
    path,            \* RequestBuilder.path
    headers,         \* RequestBuilder.headers
    body,            \* RequestBuilder.body: Option<T>
    query_params,    \* RequestBuilder.query_params: Option<Q>
    mark_resp,       \* RequestBuilder.mark_resp: the response type R
    calls,           \* builder operations applied so far
    pc,              \* "build", "sleep", "retry", "done" or "panicked"
    i,               \* iterations of the retry loop completed
    retry_delay,     \* send's retry_delay
    clock,           \* the wall clock read by Timestamp::now
    cn_answer,       \* what is_cn answered in the last attempt, if it was called
    exchange,        \* what the transport did with the last attempt's request
    targets,         \* the URLs of the requests handed to the transport
    header_calls,    \* the header(key, value) calls applied to a builder alone
    attempts,        \* results of the do_send calls of this send, in order
    delays,          \* durations slept by this send, in order
    cn_calls,        \* calls of is_cn so far
    executed,        \* requests handed to the transport so far
    request,         \* do_send's request, as handed to the transport
    response,        \* do_send's (status, trace_id, text), as classified
    result           \* what send returned

builder == <<method, path, headers, body, query_params, mark_resp>>
client == <<config, default_headers>>
observed == <<cn_answer, exchange, targets>>
vars == <<config, default_headers, method, path, headers, body, query_params,
          mark_resp, calls, pc, i, retry_delay, clock, attempts, delays,
          cn_calls, executed, request, response, result, cn_answer, exchange,
          targets, header_calls>>

\* builder operations applied to one builder in the model
MaxBuilderCalls == 2

\* the inputs of the builder and the client configurations of the model
HttpUrlConfigs == {None, Some("https://gateway.example")}
AppKeys == {"app-key", "app\nkey"}
AccessTokens == {"token", "to\nken"}
DefaultHeaderConfigs ==
    {EmptyHeaders, [EmptyHeaders EXCEPT !["User-Agent"] = <<"custom-agent">>]}
Paths == {"/v1/ping", ":x"}
HeaderKeyInputs == {"X-Timestamp", "bad name"}
HeaderValueInputs == {"17", "abc", "bad\nvalue"}
\* format!("{}{}", url, path) texts that Url::parse rejects: an invalid port
InvalidUrls == {HTTP_URL \o ":x", HTTP_URL_CN \o ":x", "https://gateway.example:x"}

(***************************************************************************)
(* RequestBuilder::new and the builder operations (request.rs:130-210).    *)
(***************************************************************************)
Init ==
    /\ config \in [http_url : HttpUrlConfigs, app_key : AppKeys,
                   access_token : AccessTokens, app_secret : {"secret"}]
    /\ default_headers \in DefaultHeaderConfigs
    /\ method = "GET"
    /\ path \in Paths
    /\ headers = EmptyHeaders
    /\ body = None
    /\ query_params = None
    /\ mark_resp = "Unit"
    /\ calls = 0
    /\ pc = "build"
    /\ i = 0
    /\ retry_delay = RETRY_INITIAL_DELAY
    /\ clock = 20
    /\ cn_answer = None
    /\ exchange = None
    /\ targets = {}
    /\ header_calls = << >>
    /\ attempts = << >>
    /\ delays = << >>
    /\ cn_calls = 0
    /\ executed = 0
    /\ request = None
    /\ response = None
    /\ result = None

\* the value is added to the values the name has
headerAppends(map, key, value) ==
    IF key \notin InvalidHeaderNames /\ value \notin InvalidHeaderValues
    THEN HeaderAppend(map, key, value)
    ELSE map
\* the header map after header(key, value)
header(map, key, value) ==
    IF key \notin InvalidHeaderNames /\ value \notin InvalidHeaderValues
    THEN HeaderInsert(map, key, value)
    ELSE map

Building == pc = "build" /\ calls < MaxBuilderCalls

SetBody(b) ==
    /\ Building
    /\ body' = Some(b)
    /\ calls' = calls + 1
    /\ UNCHANGED <<client, method, path, headers, query_params, mark_resp, pc, i,
                   retry_delay, clock, attempts, delays, cn_calls, executed,
                   request, response, result,
                   observed, header_calls>>

SetHeader(key, value) ==
    /\ Building
    /\ headers' = header(headers, key, value)
    /\ calls' = calls + 1
    /\ UNCHANGED <<client, method, path, body, query_params, mark_resp, pc, i,
                   retry_delay, clock, attempts, delays, cn_calls, executed,
                   request, response, result,
                   observed, header_calls>>

SetQueryParams(params) ==
    /\ Building
    /\ query_params' = Some(params)
    /\ calls' = calls + 1
    /\ UNCHANGED <<client, method, path, headers, body, mark_resp, pc, i,
                   retry_delay, clock, attempts, delays, cn_calls, executed,
                   request, response, result,
                   observed, header_calls>>

SetResponse(R2) ==
    /\ Building
    /\ mark_resp' = R2
    /\ calls' = calls + 1
    /\ UNCHANGED <<client, method, path, headers, body, query_params, pc, i,
                   retry_delay, clock, attempts, delays, cn_calls, executed,
                   request, response, result,
                   observed, header_calls>>

(***************************************************************************)
(* do_send (request.rs:226-330): one attempt.  now is Timestamp::now(),    *)
(* cn the answer of is_cn() and ex what the transport does with the        *)
(* request.  The outcome tells how far the attempt got.                    *)
(***************************************************************************)
\* the URL of a request to the given base URL: format!("{}{}", url, path)
\* with the query string attached
UrlOn(base) ==
    base \o path \o (IF query_params = None THEN "" ELSE "?" \o query_params[1].text)

\* the base URL of the first request of the send is kept for its retries
http_urlCached(cn) ==
    IF config.http_url # None THEN config.http_url[1]
    ELSE IF targets # {}
         THEN (IF UrlOn(HTTP_URL_CN) \in targets THEN HTTP_URL_CN ELSE HTTP_URL)
         ELSE IF cn THEN HTTP_URL_CN ELSE HTTP_URL
\* http_url (request.rs:218-224)
http_url(cn) ==
    IF config.http_url # None THEN config.http_url[1]
    ELSE IF cn THEN HTTP_URL_CN ELSE HTTP_URL

\* is_cn is awaited before the override is looked at
ConsultsIsCnFirst == TRUE
\* whether http_url awaits is_cn
ConsultsIsCn == config.http_url = None

\* the timestamp the first attempt of the send generated is used again
AttemptTimestampOfFirstAttempt(now) ==
    LET value  == HeaderGet(headers, "X-Timestamp")
        text   == IF value = None THEN None ELSE HeaderToStr(value[1])
        parsed == IF text = None THEN None ELSE ParseTimestamp(text[1])
    IN  IF parsed = None THEN now - Len(delays) ELSE parsed[1]
\* the timestamp of the attempt (request.rs:232-237)
AttemptTimestamp(now) ==
    LET value  == HeaderGet(headers, "X-Timestamp")
        text   == IF value = None THEN None ELSE HeaderToStr(value[1])
        parsed == IF text = None THEN None ELSE ParseTimestamp(text[1])
    IN  IF parsed = None THEN now ELSE parsed[1]

\* reqwest's RequestBuilder::headers: the given map's names replace the
\* request's values of the same names
ReplaceHeaders(dst, src) ==
    [n \in DOMAIN dst |-> IF src[n] # << >> THEN src[n] ELSE dst[n]]

\* reqwest's RequestBuilder::header: the value is appended to the name's values
RequestHeader(map, name, value) == HeaderAppend(map, name, value)

\* the headers of the request before it is signed (request.rs:244-252)
AssembleHeaders(timestamp) ==
    LET h1 == ReplaceHeaders(EmptyHeaders, default_headers)
        h2 == ReplaceHeaders(h1, headers)
        h3 == RequestHeader(h2, "User-Agent", USER_AGENT)
        h4 == RequestHeader(h3, "X-Api-Key", config.app_key)
        h5 == RequestHeader(h4, "Authorization", config.access_token)
        h6 == RequestHeader(h5, "X-Timestamp", TimestampToString(timestamp))
    IN  RequestHeader(h6, "Content-Type", "application/json; charset=utf-8")

\* reqwest's Client::request(method, url): the url is parsed, and build()
\* fails when it does not parse
IntoUrl(text) == IF text \in InvalidUrls THEN None ELSE Some(text)

\* the signer (crate::signature::signature), a function of what it is given
signature(req, timestamp) ==
    [method |-> req.method, url |-> req.url, body |-> req.body,
     app_key |-> config.app_key, access_token |-> config.access_token,
     app_secret |-> config.app_secret, timestamp |-> timestamp]

\* HTTP 429 is a bad status whatever the body is
ClassifyRateLimitFirst(status, trace_id, text) ==
    LET resp == ParseEnvelope(text) IN
    IF status = TOO_MANY_REQUESTS THEN BadStatus(status)
    ELSE IF resp # None /\ resp[1].code = 0 THEN
        IF resp[1].data = None THEN Err("UnexpectedResponse")
        ELSE LET parsed == parse_from_bytes(mark_resp, resp[1].data[1]) IN
             IF parsed = None THEN Err("DeserializeResponseBody") ELSE Ok(parsed[1])
    ELSE IF resp # None THEN OpenApi(resp[1].code, resp[1].message, trace_id)
    ELSE IF status = StatusOK THEN Err("DeserializeResponseBody")
    ELSE BadStatus(status)
\* the HTTP status is looked at before the envelope
ClassifyStatusFirst(status, trace_id, text) ==
    LET resp == ParseEnvelope(text) IN
    IF status # StatusOK THEN BadStatus(status)
    ELSE IF resp = None THEN Err("DeserializeResponseBody")
    ELSE IF resp[1].code # 0 THEN OpenApi(resp[1].code, resp[1].message, trace_id)
    ELSE IF resp[1].data = None THEN Err("UnexpectedResponse")
    ELSE LET parsed == parse_from_bytes(mark_resp, resp[1].data[1]) IN
         IF parsed = None THEN Err("DeserializeResponseBody") ELSE Ok(parsed[1])
\* a body that does not parse is a bad status, whatever the status is
ClassifyNoDeserializeArm(status, trace_id, text) ==
    LET resp == ParseEnvelope(text) IN
    IF resp # None /\ resp[1].code = 0 THEN
        IF resp[1].data = None THEN Err("UnexpectedResponse")
        ELSE LET parsed == parse_from_bytes(mark_resp, resp[1].data[1]) IN
             IF parsed = None THEN Err("DeserializeResponseBody") ELSE Ok(parsed[1])
    ELSE IF resp # None THEN OpenApi(resp[1].code, resp[1].message, trace_id)
    ELSE BadStatus(status)
\* the response classified (request.rs:315-329)
Classify(status, trace_id, text) ==
    LET resp == ParseEnvelope(text) IN
    IF resp # None /\ resp[1].code = 0 THEN
        IF resp[1].data = None THEN Err("UnexpectedResponse")
        ELSE LET parsed == parse_from_bytes(mark_resp, resp[1].data[1]) IN
             IF parsed = None THEN Err("DeserializeResponseBody") ELSE Ok(parsed[1])
    ELSE IF resp # None THEN OpenApi(resp[1].code, resp[1].message, trace_id)
    ELSE IF status = StatusOK THEN Err("DeserializeResponseBody")
    ELSE BadStatus(status)

\* the trace id read from the response (request.rs:298-303)
TraceId(trace) ==
    IF trace = None \/ HeaderToStr(trace[1]) = None THEN "" ELSE HeaderToStr(trace[1])[1]

\* one bound for the whole send: the time of the earlier attempts and of
\* the backoff waits counts too
TimedOutSinceSendBegan(ex) ==
    DurationLess(REQUEST_TIMEOUT,
                 DurationAdd(ex.took,
                             DurationAdd(SumDurations(delays),
                                         SumDurations([k \in 1 .. Len(attempts) |-> InTime]))))
\* tokio::time::timeout(REQUEST_TIMEOUT, ..) elapses before the exchange ends
TimedOut(ex) == DurationLess(REQUEST_TIMEOUT, ex.took)

\* the exchange under tokio::time::timeout (request.rs:292-311)
Exchange(ex) ==
    IF TimedOut(ex) THEN Err("RequestTimeout")
    ELSE CASE ex.kind = "execute_error" -> Err("Http")
           [] ex.kind = "text_error" -> Err("Http")
           [] ex.kind = "response" -> Classify(ex.status, TraceId(ex.trace), ex.text)

Attempt(res, req, resp, panicked) ==
    [result |-> res, request |-> req, response |-> resp, panicked |-> panicked]

\* a body that fails to encode is left out of the request
do_sendDropsUnencodedBody(now, cn, ex) ==
    LET timestamp == AttemptTimestamp(now)
        url       == IntoUrl(http_url(cn) \o path)
        bytes     == IF body = None THEN None ELSE to_bytes(body[1])
        query     == IF query_params = None THEN None ELSE qs_to_string(query_params[1])
        built     == [method  |-> method,
                      url     |-> IF query_params = None THEN url[1]
                                  ELSE url[1] \o "?" \o query[1],
                      headers |-> AssembleHeaders(timestamp),
                      body    |-> bytes]
        signed    == [built EXCEPT !.headers =
                         HeaderInsert(@, "X-Api-Signature", signature(built, timestamp))]
    IN  IF config.app_key \in InvalidHeaderValues
        THEN Attempt(Some(Err("InvalidApiKey")), None, None, FALSE)
        ELSE IF config.access_token \in InvalidHeaderValues
        THEN Attempt(Some(Err("InvalidAccessToken")), None, None, FALSE)
        ELSE IF url = None
        THEN Attempt(None, None, None, TRUE)
        ELSE IF query_params # None /\ query = None
        THEN Attempt(Some(Err("SerializeQueryString")), None, None, FALSE)
        ELSE Attempt(Some(Exchange(ex)), Some(signed),
                     IF ex.kind = "response" /\ ~TimedOut(ex) THEN Some(ex) ELSE None,
                     FALSE)
\* the signature is computed before the query string is attached
do_sendSignsBeforeQuery(now, cn, ex) ==
    LET timestamp == AttemptTimestamp(now)
        url       == IntoUrl(http_url(cn) \o path)
        bytes     == IF body = None THEN None ELSE to_bytes(body[1])
        query     == IF query_params = None THEN None ELSE qs_to_string(query_params[1])
        built     == [method  |-> method,
                      url     |-> IF query_params = None THEN url[1]
                                  ELSE url[1] \o "?" \o query[1],
                      headers |-> AssembleHeaders(timestamp),
                      body    |-> bytes]
        signed    == [built EXCEPT !.headers =
                         HeaderInsert(@, "X-Api-Signature",
                                      signature([built EXCEPT !.url = url[1]], timestamp))]
    IN  IF config.app_key \in InvalidHeaderValues
        THEN Attempt(Some(Err("InvalidApiKey")), None, None, FALSE)
        ELSE IF config.access_token \in InvalidHeaderValues
        THEN Attempt(Some(Err("InvalidAccessToken")), None, None, FALSE)
        ELSE IF body # None /\ bytes = None
        THEN Attempt(Some(Err("SerializeRequestBody")), None, None, FALSE)
        ELSE IF url = None
        THEN Attempt(None, None, None, TRUE)
        ELSE IF query_params # None /\ query = None
        THEN Attempt(Some(Err("SerializeQueryString")), None, None, FALSE)
        ELSE Attempt(Some(Exchange(ex)), Some(signed),
                     IF ex.kind = "response" /\ ~TimedOut(ex) THEN Some(ex) ELSE None,
                     FALSE)
\* one attempt (request.rs:226-330)
do_send(now, cn, ex) ==
    LET timestamp == AttemptTimestamp(now)
        url       == IntoUrl(http_url(cn) \o path)
        bytes     == IF body = None THEN None ELSE to_bytes(body[1])
        query     == IF query_params = None THEN None ELSE qs_to_string(query_params[1])
        built     == [method  |-> method,
                      url     |-> IF query_params = None THEN url[1]
                                  ELSE url[1] \o "?" \o query[1],
                      headers |-> AssembleHeaders(timestamp),
                      body    |-> bytes]
        signed    == [built EXCEPT !.headers =
                         HeaderInsert(@, "X-Api-Signature", signature(built, timestamp))]
    IN  IF config.app_key \in InvalidHeaderValues
        THEN Attempt(Some(Err("InvalidApiKey")), None, None, FALSE)
        ELSE IF config.access_token \in InvalidHeaderValues
        THEN Attempt(Some(Err("InvalidAccessToken")), None, None, FALSE)
        ELSE IF body # None /\ bytes = None
        THEN Attempt(Some(Err("SerializeRequestBody")), None, None, FALSE)
        ELSE IF url = None
        THEN Attempt(None, None, None, TRUE)
        ELSE IF query_params # None /\ query = None
        THEN Attempt(Some(Err("SerializeQueryString")), None, None, FALSE)
        ELSE Attempt(Some(Exchange(ex)), Some(signed),
                     IF ex.kind = "response" /\ ~TimedOut(ex) THEN Some(ex) ELSE None,
                     FALSE)

\* whether the attempt gets as far as http_url
ReachesHttpUrl ==
    /\ config.app_key \notin InvalidHeaderValues
    /\ config.access_token \notin InvalidHeaderValues

(***************************************************************************)
(* send (request.rs:333-357).                                              *)
(***************************************************************************)
RateLimited == BadStatus(TOO_MANY_REQUESTS)

\* every bad status is retried
RetryableAnyBadStatus(res) == res.kind = "BadStatus"
\* the Ok arm does not return
RetryableAlsoOk(res) == res = RateLimited \/ res.kind = "Ok"
\* the results of do_send that send answers with a retry: the match arm
\* Err(HttpClientError::BadStatus(StatusCode::TOO_MANY_REQUESTS))
Retryable(res) == res = RateLimited

\* what every do_send call leaves behind, whatever send does with it
Attempted(a, cn, ex) ==
    /\ attempts' = Append(attempts, IF a.panicked THEN Err("panic") ELSE a.result[1])
    /\ cn_calls' = cn_calls + (IF ReachesHttpUrl /\ ConsultsIsCn THEN 1 ELSE 0)
    /\ executed' = executed + (IF a.request # None THEN 1 ELSE 0)
    /\ request' = a.request
    /\ response' = a.response
    /\ cn_answer' = IF ReachesHttpUrl /\ ConsultsIsCn THEN Some(cn) ELSE None
    /\ exchange' = IF a.request # None THEN Some(ex) ELSE None
    /\ targets' = IF a.request # None THEN targets \cup {a.request[1].url} ELSE targets

\* the answers is_cn can give in an attempt that may await it
CnAnswers == IF ConsultsIsCn THEN BOOLEAN ELSE {FALSE}

\* send is called: the first do_send and the match on its result
\* (request.rs:334-337, 355)
SendFirst(cn, ex) ==
    /\ pc = "build"
    /\ LET a == do_send(clock, cn, ex) IN
       /\ Attempted(a, cn, ex)
       /\ IF a.panicked
          THEN pc' = "panicked" /\ UNCHANGED <<result, retry_delay>>
          ELSE IF Retryable(a.result[1])
          THEN /\ retry_delay' = RETRY_INITIAL_DELAY
               /\ pc' = IF RETRY_COUNT > 0 THEN "sleep" ELSE "done"
               /\ result' = IF RETRY_COUNT > 0 THEN result ELSE Some(RateLimited)
          ELSE pc' = "done" /\ result' = a.result /\ UNCHANGED retry_delay
    /\ UNCHANGED <<client, builder, calls, i, clock, delays, header_calls>>

\* tokio::time::sleep(retry_delay) (request.rs:340); the locals of the
\* do_send that returned are gone
Sleep ==
    /\ pc = "sleep"
    /\ delays' = Append(delays, retry_delay)
    /\ clock' = clock + 1
    /\ pc' = "retry"
    /\ request' = None
    /\ response' = None
    /\ cn_answer' = None
    /\ exchange' = None
    /\ UNCHANGED <<client, builder, calls, i, retry_delay, attempts, cn_calls,
                   executed, result, targets, header_calls>>

\* the do_send of one iteration of the retry loop and the match on its
\* result (request.rs:339, 342-353)
Retry(cn, ex) ==
    /\ pc = "retry"
    /\ LET a == do_send(clock, cn, ex) IN
       /\ Attempted(a, cn, ex)
       /\ IF a.panicked
          THEN pc' = "panicked" /\ UNCHANGED <<result, retry_delay, i>>
          ELSE IF Retryable(a.result[1])
          THEN /\ retry_delay' = NextDelay(retry_delay)
               /\ i' = i + 1
               /\ pc' = IF i + 1 < RETRY_COUNT THEN "sleep" ELSE "done"
               /\ result' = IF i + 1 < RETRY_COUNT THEN result ELSE Some(RateLimited)
          ELSE pc' = "done" /\ result' = a.result /\ UNCHANGED <<retry_delay, i>>
    /\ UNCHANGED <<client, builder, calls, clock, delays, header_calls>>

Next ==
    \/ \E b \in BodyInputs : SetBody(b)
    \/ \E key \in HeaderKeyInputs, value \in HeaderValueInputs : SetHeader(key, value)
    \/ \E params \in QueryInputs : SetQueryParams(params)
    \/ \E R2 \in ResponseTypes : SetResponse(R2)
    \/ \E cn \in CnAnswers, ex \in Exchanges : SendFirst(cn, ex)
    \/ Sleep
    \/ \E cn \in CnAnswers, ex \in Exchanges : Retry(cn, ex)

Spec == Init /\ [][Next]_vars

(***************************************************************************)
(* The header setter alone (request.rs:164-175): a builder that receives   *)
(* header(key, value) calls only, with the calls it received recorded.     *)
(***************************************************************************)
\* header calls applied to one builder
MaxHeaderCalls == 3

HeaderCallKeys == HeaderKeyInputs \cup {"User-Agent"}

HeaderCall(key, value) ==
    /\ pc = "build"
    /\ Len(header_calls) < MaxHeaderCalls
    /\ headers' = header(headers, key, value)
    /\ header_calls' = Append(header_calls, <<key, value>>)
    /\ UNCHANGED <<client, method, path, body, query_params, mark_resp, calls, pc,
                   i, retry_delay, clock, attempts, delays, cn_calls, executed,
                   request, response, result, observed>>

NextHeader ==
    \E key \in HeaderCallKeys, value \in HeaderValueInputs : HeaderCall(key, value)

SpecHeader == Init /\ [][NextHeader]_vars

(***************************************************************************)
(* Helpers of the properties.                                              *)
(***************************************************************************)
Last(seq) == seq[Len(seq)]

\* every attempt before the last one ended with the rate-limit error
EarlierRateLimited == \A k \in 1 .. Len(attempts) - 1 : attempts[k] = RateLimited

\* send has returned res and nothing more happens
Returned(res) == pc = "done" /\ result = Some(res)

\* the last attempt classified a response
Classified == response # None /\ attempts # << >>

(***************************************************************************)
(* Properties of the retry controller.                                     *)
(***************************************************************************)
\* C1: a send executes at most 6 attempts (the first and at most 5
\* retries); when all 6 end in BadStatus(429), send has returned
\* BadStatus(429) and makes no further attempt.
C1_AtMostSixAttempts ==
    /\ Len(attempts) <= 6
    /\ Len(delays) <= 5
    /\ executed <= 6
    /\ (Len(attempts) = 6 /\ \A k \in 1 .. 6 : attempts[k] = RateLimited)
          => Returned(RateLimited)
    /\ pc = "done" => ~ENABLED Next

\* six attempts that all ended in BadStatus(429), and send has returned
C1_Witness ==
    /\ Len(attempts) = 6
    /\ \A k \in 1 .. 6 : attempts[k] = RateLimited
    /\ Returned(RateLimited)

\* the results of an attempt that are errors
IsError(res) == res.kind \notin {"Ok", "panic"}

\* C2: an attempt is followed by another attempt only if it ended with
\* BadStatus(429); when an attempt ends with any other error, send has
\* returned that same error in the state the attempt leaves, with no
\* backoff wait after the attempt and no further attempt.
C2_OnlyRateLimitRetried ==
    /\ EarlierRateLimited
    /\ (attempts # << >> /\ IsError(Last(attempts)) /\ Last(attempts) # RateLimited)
          => /\ Returned(Last(attempts))
             /\ Len(delays) = Len(attempts) - 1
             /\ ~ENABLED Next
    /\ pc \in {"sleep", "retry"} => Last(attempts) = RateLimited

\* a retry that ended with a bad status other than 429, and send returned it
C2_Witness ==
    /\ Len(attempts) = 3
    /\ Last(attempts) = BadStatus(500)
    /\ Returned(BadStatus(500))
    /\ Len(delays) = 2

\* the delays 100, 200, 400, 800 and 1600 ms
DoublingMillis ==
    <<from_millis(100), from_millis(200), from_millis(400), from_millis(800),
      from_millis(1600)>>

\* C3 as stated: when six consecutive attempts receive HTTP 429 responses,
\* send has waited exactly 100, 200, 400, 800 and 1600 ms before retries 1
\* to 5, each wait twice the previous one, and returns the rate-limit error.
C3_AsStated ==
    (Len(attempts) = 6 /\ response # None /\ response[1].status = TOO_MANY_REQUESTS)
       => /\ delays = DoublingMillis
          /\ \A k \in 2 .. 5 : delays[k] = DurationAdd(delays[k - 1], delays[k - 1])
          /\ Returned(RateLimited)

\* C3 amended: when six consecutive attempts end with BadStatus(429), send
\* has made exactly 5 retries and returns the rate-limit error; the waits
\* before retries 1 to 5 are 100 ms, 200.000003 ms, 400.000006 ms,
\* 800.000012 ms and 1600.000024 ms (100, 200, 400, 800 and 1600 in whole
\* milliseconds); and no send waits before its first attempt: the waits are
\* always as many as the attempts after the first one that have started.
C3_BackoffDelays ==
    /\ (Len(attempts) = 6 /\ Last(attempts) = RateLimited)
          => /\ delays = << [secs |-> 0, nanos |-> 100000000],
                            [secs |-> 0, nanos |-> 200000003],
                            [secs |-> 0, nanos |-> 400000006],
                            [secs |-> 0, nanos |-> 800000012],
                            [secs |-> 1, nanos |-> 600000024] >>
             /\ \A k \in 1 .. 5 : as_millis(delays[k]) = as_millis(DoublingMillis[k])
             /\ Returned(RateLimited)
    /\ Len(delays) = (IF pc = "retry" THEN Len(attempts)
                      ELSE IF attempts = << >> THEN 0 ELSE Len(attempts) - 1)

\* six rate-limited attempts and five waits, and send has returned
C3_Witness ==
    /\ Len(attempts) = 6
    /\ Last(attempts) = RateLimited
    /\ Len(delays) = 5
    /\ Returned(RateLimited)

\* the decoded value of the response the last attempt classified
DecodedValue ==
    [ty |-> mark_resp,
     v  |-> IF mark_resp = "Unit" THEN "" ELSE response[1].text.data[1]]

\* C4: if, after k-1 rate-limited attempts (2 <= k <= 6), attempt k gets a
\* 200 response that is a success, send has returned that attempt's decoded
\* value after exactly k attempts and k-1 waits, and nothing happens after.
C4_SuccessStopsRetrying ==
    \A k \in 2 .. 6 :
        (/\ Len(attempts) = k
         /\ Classified
         /\ response[1].status = StatusOK
         /\ attempts[k].kind = "Ok")
        => /\ EarlierRateLimited
           /\ Returned(Ok(DecodedValue))
           /\ attempts[k] = Ok(DecodedValue)
           /\ executed = k
           /\ Len(delays) = k - 1
           /\ ~ENABLED Next

\* a success on the fourth attempt with a string response type
C4_Witness ==
    /\ Len(attempts) = 4
    /\ Classified
    /\ response[1].status = StatusOK
    /\ mark_resp = "String"
    /\ Returned(Ok([ty |-> "String", v |-> "\"{}\""]))
    /\ Len(delays) = 3

\* {"code":0,"data":"{}"}
BodyWithoutMessage == Envelope(Some("0"), None, Some("\"{}\""))
\* {"code":0,"message":"ok","data":"{}"}
BodyWithMessage == Envelope(Some("0"), Some("ok"), Some("\"{}\""))

\* the sixth attempt got HTTP 200 with the given body after five attempts
\* that got HTTP 429 and were rate-limited
SixthAttemptGot(text) ==
    /\ Len(attempts) = 6
    /\ EarlierRateLimited
    /\ Classified
    /\ response[1].status = StatusOK
    /\ response[1].text = text

\* C5 as stated: HTTP 429 on the first five attempts and HTTP 200 with the
\* body {"code":0,"data":"{}"} on the sixth: send returns success.
C5_AsStated ==
    SixthAttemptGot(BodyWithoutMessage) => (result # None /\ result[1].kind = "Ok")

\* C5 amended: with the body {"code":0,"data":"{}"} on the sixth attempt the
\* envelope does not parse (message is required) and send returns the
\* deserialize-response-body error; with {"code":0,"message":"ok",
\* "data":"{}"} and a unit or string response type send returns success;
\* both after a cumulative backoff of about 3.1 s (3.100000045 s).
C5_SixthAttemptBody ==
    /\ SixthAttemptGot(BodyWithoutMessage)
          => /\ Returned(Err("DeserializeResponseBody"))
             /\ SumDurations(delays) = [secs |-> 3, nanos |-> 100000045]
    /\ (SixthAttemptGot(BodyWithMessage) /\ mark_resp \in {"Unit", "String"})
          => /\ result # None /\ result[1].kind = "Ok" /\ pc = "done"
             /\ SumDurations(delays) = [secs |-> 3, nanos |-> 100000045]
             /\ as_millis(SumDurations(delays)) = 3100

\* the sixth attempt got the body without a message, and send has returned
C5_Witness ==
    /\ SixthAttemptGot(BodyWithoutMessage)
    /\ pc = "done"
    /\ Len(delays) = 5

(***************************************************************************)
(* Properties of the response classification.                              *)
(***************************************************************************)
\* the response text is a JSON object with an i32 code and a message: it
\* parses as the envelope
ParsesAsEnvelope(text) ==
    /\ text.object
    /\ text.code # None /\ \E n \in Codes : CodeText[n] = text.code[1]
    /\ text.message # None

\* the code of a response text that parses as the envelope
CodeOf(text) == CHOOSE n \in Codes : CodeText[n] = text.code[1]

\* C6: when the response body of an attempt parses as the envelope with a
\* nonzero code, the attempt's result is the domain error with that code,
\* that message and the trace id of the same response (the empty string
\* when the trace-id header is absent), whatever the HTTP status is.
C6_DomainError ==
    (Classified /\ ParsesAsEnvelope(response[1].text) /\ CodeOf(response[1].text) # 0)
       => /\ Last(attempts).kind = "OpenApi"
          /\ Last(attempts).code = CodeOf(response[1].text)
          /\ Last(attempts).message = response[1].text.message[1]
          /\ response[1].trace = None => Last(attempts).trace_id = ""
          /\ (response[1].trace # None /\ response[1].trace[1] \notin OpaqueHeaderValues)
                => Last(attempts).trace_id = response[1].trace[1]
          /\ Returned(Last(attempts))

\* an HTTP 429 response with a domain error and a trace id, on a retry
C6_Witness ==
    /\ Classified
    /\ Len(attempts) = 2
    /\ response[1].status = TOO_MANY_REQUESTS
    /\ response[1].trace = Some("trace-1")
    /\ Returned(OpenApi(7, "denied", "trace-1"))

\* C7: when the response body of an attempt parses as the envelope with
\* code 0 and null or absent data, the result is the unexpected-response
\* error, for every HTTP status and every response type, the unit type too.
C7_NullDataUnexpected ==
    (/\ Classified
     /\ ParsesAsEnvelope(response[1].text)
     /\ CodeOf(response[1].text) = 0
     /\ response[1].text.data \in {None, Some("null")})
       => /\ Last(attempts) = Err("UnexpectedResponse")
          /\ Returned(Err("UnexpectedResponse"))

\* GET /v1/ping, unit response type, {"code":0,"message":"ok","data":null}
\* with HTTP 200
C7_Witness ==
    /\ Classified
    /\ path = "/v1/ping" /\ method = "GET" /\ body = None
    /\ mark_resp = "Unit"
    /\ response[1].status = StatusOK
    /\ response[1].text = Envelope(Some("0"), Some("ok"), Some("null"))
    /\ Returned(Err("UnexpectedResponse"))

\* C8: when the response body of an attempt does not parse as the
\* envelope, the result is the deserialize-response-body error if the HTTP
\* status is 200 and the bad-status error with that status otherwise.
C8_UnparsedBody ==
    (Classified /\ ~ParsesAsEnvelope(response[1].text))
       => Last(attempts) = (IF response[1].status = StatusOK
                            THEN Err("DeserializeResponseBody")
                            ELSE BadStatus(response[1].status))

\* HTTP 200 with a body that is no JSON
C8_Witness ==
    /\ Classified
    /\ response[1].status = StatusOK
    /\ response[1].text = NotJson
    /\ Returned(Err("DeserializeResponseBody"))

(***************************************************************************)
(* Properties of the pipeline.                                             *)
(***************************************************************************)
\* the error kinds the specification enumerates
EnumeratedErrors ==
    {"InvalidApiKey", "InvalidAccessToken", "SerializeRequestBody",
     "DeserializeResponseBody", "RequestTimeout", "Http", "BadStatus", "OpenApi",
     "UnexpectedResponse"}

\* C9: for every body, query and response type and every response, send
\* ends with a decoded value or one of the enumerated error kinds, and no
\* step of the pipeline panics.
C9_NoPanic ==
    /\ pc # "panicked"
    /\ \A k \in 1 .. Len(attempts) : attempts[k].kind \in EnumeratedErrors \cup {"Ok"}
    /\ result # None => result[1].kind \in EnumeratedErrors \cup {"Ok"}

\* the values the fixed protocol headers carry
FixedHeaders ==
    [n \in {"User-Agent", "X-Api-Key", "Authorization", "X-Timestamp", "Content-Type"} |->
        CASE n = "User-Agent" -> USER_AGENT
          [] n = "X-Api-Key" -> config.app_key
          [] n = "Authorization" -> config.access_token
          [] n = "X-Timestamp" ->
                 TimestampToString(request[1].headers["X-Api-Signature"][1].timestamp)
          [] n = "Content-Type" -> "application/json; charset=utf-8"]

\* C10: in every request handed to the transport each fixed protocol header
\* carries only the fixed protocol value: a value the client defaults or the
\* caller set for the same name is not transmitted.
C10_FixedHeadersOverride ==
    request # None =>
        \A n \in DOMAIN FixedHeaders : request[1].headers[n] = <<FixedHeaders[n]>>

(***************************************************************************)
(* Properties of the endpoint resolution.                                  *)
(***************************************************************************)
\* the API key and the access token are legal header values
LegalCredentials ==
    /\ config.app_key \notin {"app\nkey"}
    /\ config.access_token \notin {"to\nken"}

\* C11: when a base-URL override is configured, is_cn is never called
\* during a send, on the first attempt or on a retry, and every request
\* handed to the transport targets the override URL.
C11_OverrideUsed ==
    config.http_url # None =>
        /\ cn_calls = 0
        /\ cn_answer = None
        /\ targets \subseteq {UrlOn(config.http_url[1])}
        /\ request # None => request[1].url = UrlOn(config.http_url[1])
        /\ executed > 0 => targets = {UrlOn(config.http_url[1])}

\* three attempts under an override: all went to the override URL
C11_Witness ==
    /\ config.http_url = Some("https://gateway.example")
    /\ Len(attempts) = 3
    /\ executed = 3
    /\ cn_calls = 0
    /\ targets = {"https://gateway.example/v1/ping"}

\* C17 as stated: with no override, is_cn is consulted once in every
\* attempt, and the attempt's base URL is chosen from that answer.
C17_AsStated ==
    config.http_url = None =>
        /\ cn_calls = Len(attempts)
        /\ attempts # << >> /\ pc # "retry" => cn_answer # None
        /\ request # None =>
              request[1].url = UrlOn(IF cn_answer[1] THEN HTTP_URL_CN ELSE HTTP_URL)

\* C17 amended: with no override, is_cn is consulted once in every attempt
\* that gets past the checks of the API key and the access token (every
\* retry is such an attempt) and not at all in an attempt that fails them;
\* the request of the attempt goes to the base URL chosen from the answer
\* given in that attempt.
C17_ResolvedPerAttempt ==
    config.http_url = None =>
        /\ cn_calls = (IF LegalCredentials THEN Len(attempts) ELSE 0)
        /\ (attempts # << >> /\ pc # "retry") => (cn_answer # None <=> LegalCredentials)
        /\ Len(attempts) > 1 => LegalCredentials
        /\ request # None =>
              /\ cn_answer # None
              /\ request[1].url = UrlOn(IF cn_answer[1] THEN HTTP_URL_CN ELSE HTTP_URL)
              /\ request[1].url \in targets

\* two attempts of one send went to different base URLs
C17_Witness ==
    /\ config.http_url = None
    /\ Len(attempts) = 2
    /\ cn_calls = 2
    /\ cn_answer = Some(TRUE)
    /\ targets = {HTTP_URL \o "/v1/ping", HTTP_URL_CN \o "/v1/ping"}

(***************************************************************************)
(* Properties of the header setter, under SpecHeader.                      *)
(***************************************************************************)
\* the calls so far that gave the name n a well-formed value
ValidCalls(n) ==
    {k \in 1 .. Len(header_calls) :
        header_calls[k][1] = n /\ header_calls[k][2] \notin {"bad\nvalue"}}

\* the greatest element of a nonempty set of numbers
Max(S) == CHOOSE k \in S : \A j \in S : j <= k

\* C12: after any sequence of header(key, value) calls, every name of the
\* map holds exactly the value of the last call that gave it a valid name
\* and value, and nothing when there was no such call: a call with an
\* invalid name or value leaves the map as it was, a valid call replaces
\* what the name held before; and no call raises an error.
C12_HeaderSetter ==
    /\ \A n \in DOMAIN headers :
          headers[n] = (IF ValidCalls(n) = {} THEN << >>
                        ELSE <<header_calls[Max(ValidCalls(n))][2]>>)
    /\ DOMAIN headers = HeaderNames
    /\ pc = "build" /\ result = None /\ attempts = << >>

\* X-Timestamp set twice, then a call with an invalid value: the map holds
\* the second value only
C12_Witness ==
    /\ header_calls = << <<"X-Timestamp", "17">>, <<"X-Timestamp", "abc">>,
                         <<"X-Timestamp", "bad\nvalue">> >>
    /\ headers = [EmptyHeaders EXCEPT !["X-Timestamp"] = <<"abc">>]

(***************************************************************************)
(* Properties of one attempt's request.                                    *)
(***************************************************************************)
\* C13: when an attempt comes to encode a body that is present and the
\* encoding fails, the attempt ends with the serialize-request-body error,
\* no request is handed to the transport, and send returns that error with
\* no wait and no further attempt.
C13_BodyEncodingFails ==
    (/\ attempts # << >>
     /\ LegalCredentials
     /\ body # None /\ to_bytes(body[1]) = None)
       => /\ attempts = <<Err("SerializeRequestBody")>>
          /\ Returned(Err("SerializeRequestBody"))
          /\ executed = 0 /\ request = None /\ exchange = None /\ targets = {}
          /\ delays = << >>
          /\ ~ENABLED Next

\* a Json body that does not serialize: send returned the error, and the
\* transport saw nothing (is_cn had been consulted)
C13_Witness ==
    /\ body = Some([codec |-> "Json", text |-> "", serializable |-> FALSE])
    /\ Returned(Err("SerializeRequestBody"))
    /\ Len(attempts) = 1
    /\ executed = 0
    /\ cn_calls = 1

\* the signature attached to the request handed to the transport
Signed == request[1].headers["X-Api-Signature"]

\* C16: the request handed to the transport carries one signature, computed
\* over exactly the method, the URL with its query string and the body bytes
\* that are transmitted: the body bytes are the encoded body and the URL
\* ends with the encoded query when the builder has them.
C16_SignedAsSent ==
    request # None =>
        /\ Len(Signed) = 1
        /\ Signed[1].method = request[1].method
        /\ Signed[1].url = request[1].url
        /\ Signed[1].body = request[1].body
        /\ request[1].method = method
        /\ request[1].body = (IF body = None THEN None ELSE to_bytes(body[1]))
        /\ \E base \in {HTTP_URL, HTTP_URL_CN, "https://gateway.example"} :
              request[1].url = UrlOn(base)
        /\ exchange # None /\ executed >= 1

\* a request with a body and a query string, signed with both
C16_Witness ==
    /\ request # None
    /\ body # None /\ body[1].codec = "String"
    /\ query_params # None
    /\ Signed[1].url = HTTP_URL_CN \o "/v1/ping?symbol=700.HK"
    /\ Signed[1].body = request[1].body
    /\ request[1].body # None

\* the caller set an X-Timestamp header that parses as a timestamp ("17" is
\* the one such value of the model)
CallerTimestamp == IF headers["X-Timestamp"] = <<"17">> THEN Some(17) ELSE None

\* the time at which the attempt that made the request began: the clock
\* starts at 20 and every backoff wait advances it
AttemptTime == 20 + Len(attempts) - 1

\* the timestamp the attempt has to use
ExpectedTimestamp == IF CallerTimestamp # None THEN CallerTimestamp[1] ELSE AttemptTime

\* C14: every request handed to the transport carries the signature, the
\* timestamp, the API key and the access token, each computed in the
\* attempt that sends it: the timestamp is the one of this attempt (the
\* time of this attempt when the caller set none), and the signature is
\* the one signature of this attempt's request, made with that timestamp
\* and the configured credentials.
C14_FreshHeaders ==
    request # None =>
        /\ \A n \in {"X-Api-Signature", "X-Timestamp", "X-Api-Key", "Authorization"} :
              request[1].headers[n] # << >>
        /\ Last(request[1].headers["X-Api-Key"]) = config.app_key
        /\ Last(request[1].headers["Authorization"]) = config.access_token
        /\ Last(request[1].headers["X-Timestamp"]) = ToString(ExpectedTimestamp)
        /\ Len(Signed) = 1
        /\ Signed[1].timestamp = ExpectedTimestamp
        /\ Signed[1].app_key = config.app_key
        /\ Signed[1].access_token = config.access_token
        /\ Signed[1].app_secret = config.app_secret
        /\ clock = AttemptTime

\* the third attempt of a send whose caller set no timestamp: the request
\* carries the time of the third attempt
C14_Witness ==
    /\ request # None
    /\ Len(attempts) = 3
    /\ headers["X-Timestamp"] = << >>
    /\ request[1].headers["X-Timestamp"] = <<"22">>
    /\ Signed[1].timestamp = 22

\* C15: in every request handed to the transport, the timestamp given to
\* the signer is the caller's X-Timestamp value when that parses and the
\* time of the attempt otherwise, and every value the request carries in
\* X-Timestamp is that timestamp.
C15_TimestampSentIsSigned ==
    request # None =>
        /\ Signed[1].timestamp = ExpectedTimestamp
        /\ request[1].headers["X-Timestamp"] # << >>
        /\ \A k \in 1 .. Len(request[1].headers["X-Timestamp"]) :
              request[1].headers["X-Timestamp"][k] = ToString(Signed[1].timestamp)

(***************************************************************************)
(* Properties of the timeout, of HTTP 429 and of termination.              *)
(***************************************************************************)
\* the time the send has taken when the last exchange ended, at least: the
\* backoff waits, the earlier exchanges (each took InTime) and the last one
ElapsedInSend ==
    DurationAdd(exchange[1].took,
                DurationAdd(SumDurations(delays),
                            SumDurations([k \in 1 .. Len(attempts) - 1 |-> InTime])))

\* C18: REQUEST_TIMEOUT bounds the exchange of one attempt.  An attempt
\* whose exchange takes longer ends with the request-timeout error,
\* whatever the transport would have answered, and send returns that error
\* with no wait and no further attempt; an attempt whose exchange takes
\* less does not time out, however long the earlier attempts and the
\* backoff waits of the send took.
C18_TimeoutPerAttempt ==
    /\ exchange # None =>
          /\ DurationLess(REQUEST_TIMEOUT, exchange[1].took)
                => /\ Last(attempts) = Err("RequestTimeout")
                   /\ Returned(Err("RequestTimeout"))
                   /\ response = None
                   /\ Len(delays) = Len(attempts) - 1
                   /\ ~ENABLED Next
          /\ DurationLess(exchange[1].took, REQUEST_TIMEOUT)
                => Last(attempts) # Err("RequestTimeout")
    /\ \A k \in 1 .. Len(attempts) :
          (attempts[k] = Err("RequestTimeout")) => (k = Len(attempts) /\ exchange # None)

\* the sixth attempt, begun more than REQUEST_TIMEOUT after the send began,
\* got its answer in time and succeeded
C18_Witness ==
    /\ Len(attempts) = 6
    /\ exchange # None
    /\ exchange[1].took = from_secs(29)
    /\ DurationLess(REQUEST_TIMEOUT, ElapsedInSend)
    /\ result # None /\ result[1].kind = "Ok"

\* C19: an attempt that receives HTTP 429 with a body that parses as the
\* envelope ends send at once, with the domain error when the code is
\* nonzero and with success, the unexpected-response error or the
\* deserialize error when it is 0, with no wait and no further attempt; a
\* wait follows only an HTTP 429 whose body does not parse.
C19_RateLimitWithEnvelope ==
    /\ (/\ Classified
         /\ response[1].status = TOO_MANY_REQUESTS
         /\ ParsesAsEnvelope(response[1].text))
          => /\ Returned(Last(attempts))
             /\ Len(delays) = Len(attempts) - 1
             /\ ~ENABLED Next
             /\ CodeOf(response[1].text) # 0 => Last(attempts).kind = "OpenApi"
             /\ CodeOf(response[1].text) = 0 =>
                   Last(attempts).kind \in {"Ok", "UnexpectedResponse",
                                            "DeserializeResponseBody"}
    /\ pc = "sleep" =>
          /\ Classified
          /\ response[1].status = TOO_MANY_REQUESTS
          /\ ~ParsesAsEnvelope(response[1].text)

\* a retry got HTTP 429 with a success envelope, and send returned the value
C19_Witness ==
    /\ Classified
    /\ Len(attempts) = 2
    /\ response[1].status = TOO_MANY_REQUESTS
    /\ response[1].text = Envelope(Some("0"), Some("ok"), Some("\"{}\""))
    /\ mark_resp = "String"
    /\ Returned(Ok([ty |-> "String", v |-> "\"{}\""]))
    /\ Len(delays) = 1

\* C20: a send ends in a terminal state, success or error, after at most 6
\* attempts and 5 waits: whenever it has not returned it can take a step,
\* attempts and waits alternate, and once it has returned nothing follows.
C20_SendReturns ==
    /\ Len(attempts) <= 6 /\ Len(delays) <= 5
    /\ Len(delays) = (IF pc = "retry" THEN Len(attempts)
                      ELSE IF attempts = << >> THEN 0 ELSE Len(attempts) - 1)
    /\ pc = "done" => (result # None /\ ~ENABLED Next)
    /\ pc # "done" => ENABLED Next

====
